---------------------------- MODULE Spec2Model ----------------------------
(***************************************************************************)
(* eat_your_vegetables.locks: the lock provider (LockAnnotation) and its   *)
(* four lock factories, as a state machine.                                *)
(*                                                                         *)
(* A holder is one flow of control that calls decorated functions and      *)
(* enters inline scopes: a thread of the worker process for the            *)
(* in-process backend, a worker process for the file and the external      *)
(* backend.  Every call pushes a frame on the holder's stack; the frame's  *)
(* pc follows `with self._factory(key, ...): return fxn(...)`:             *)
(*                                                                         *)
(* (cls is the class of the factory that is called and so of the context   *)
(* manager the with statement works on)                                    *)
(*                                                                         *)
(*   call     ProcessLockFactory.__call__ entered, self._lock not taken    *)
(*   lookup   ProcessLockFactory.__call__ inside `with self._lock`         *)
(*   missing  defaultdict.__missing__ running: key seen absent             *)
(*   enter    the factory returned the context manager; __enter__ pending  *)
(*   flock    file_lock: the file is open, fcntl.flock pending             *)
(*   held     __enter__ returned: the protected section is running         *)
(*   failed   __enter__ raised `err`; nothing was acquired                 *)
(*                                                                         *)
(* The end of the protected section and the __exit__ that follows it are   *)
(* one step: no other holder can tell the two apart.                       *)
(*                                                                         *)
(* Before any of this init_celery (eat_your_vegetables/__init__.py) picks  *)
(* the factory class named by the settings, constructs it and makes the    *)
(* module global `lock` a LockAnnotation around it.                        *)
(***************************************************************************)
EXTENDS Integers, Sequences, FiniteSets

\* ------------------------------------------------------------- bounds ---
NumHolders == 2
NumKeys    == 2
MaxDepth   == 2
MaxExpires == 2
MaxTimeout == 1
MaxInits   == 2
MaxInline  == 1

Holders == 1..NumHolders
Keys    == 1..NumKeys

\* The factory classes of locks.py.
DummyLockFactory   == "DummyLockFactory"
ProcessLockFactory == "ProcessLockFactory"
FileLockFactory    == "FileLockFactory"
RedisLockFactory   == "RedisLockFactory"
Factories == {DummyLockFactory, ProcessLockFactory, FileLockFactory, RedisLockFactory}
\* What the module global `lock` is before init_celery has replaced it.
ImportWarningClass == "ImportWarningClass"

\* What a protected section can do: return a value or raise an error.
Values == {"v1"}
Errors == {"e1", "e2"}
\* What __enter__ can raise: retools' LockTimeout, open()'s IOError.
LockTimeout == "LockTimeout"
IOError     == "IOError"
Return(v) == [kind |-> "return", val |-> v]
Raise(e)  == [kind |-> "raise", val |-> e]
Nothing   == [kind |-> "none", val |-> "none"]
NoCall    == [fxn |-> Nothing, saw |-> Nothing]
Outcomes  == {Return(v) : v \in Values} \cup {Raise(e) : e \in Errors}

VARIABLES
    lock_factory, \* settings' 'lock_factory' in the last init_celery call
    error,      \* what the last init_celery call raised, or "none"
    inits,      \* how many times init_celery was called
    made,       \* how many factory instances were constructed
    lock,       \* the module global `lock`: the number of the instance its
                \* LockAnnotation wraps, 0 for the ImportWarningClass
    bound,      \* decorated function -> the instance its wrapped() closed
                \* over, 0 while the function is not defined
    factory,    \* class of the instance in `lock`
    expires,    \* the `expires` argument the call sites pass
    timeout,    \* the `timeout` argument the call sites pass
    stack,      \* holder -> sequence of frames, innermost last
    observed,   \* the last finished call: what fxn did in it (Nothing when
                \* fxn was not called) and what its caller saw
    alive,      \* holder -> its process is running
    guard,      \* ProcessLockFactory._lock: the holder inside it, or 0
    table,      \* ProcessLockFactory._locks: key -> lock object, 0 = absent
    rlock,      \* the RLock objects: <<key, creator>> -> owner and count
    flocked,    \* key -> the open file that holds flock on the key's file
    store       \* the Redis key space: key -> owning Lock and remaining TTL

boot == <<lock_factory, error, inits, made, lock, bound>>

vars == <<boot, factory, expires, timeout, stack, observed, alive, guard,
          table, rlock, flocked, store>>

\* ------------------------------------------------------------ helpers ---
NoFrame == <<0, 0>>
NoKey   == [owner |-> NoFrame, ttl |-> 0]
Free    == [owner |-> 0, count |-> 0]

Depth(h) == Len(stack[h])
Top(h)   == stack[h][Depth(h)]
At(h, pc) == alive[h] /\ Depth(h) > 0 /\ Top(h).pc = pc

SetTop(h, f) == [stack EXCEPT ![h][Depth(h)] = f]
Pop(h)       == [stack EXCEPT ![h] = SubSeq(@, 1, Len(@) - 1)]

\* The two surfaces of LockAnnotation: a call of a decorated function
\* (wrapped) and `with lock.inline(key)`.
Modes == {"wrapped", "inline"}

NewFrame(k, cls, m) ==
    [key |-> k, cls |-> cls, mode |-> m,
     pc |-> IF cls = ProcessLockFactory THEN "call" ELSE "enter",
     ref |-> 0, waited |-> 0, age |-> 0, err |-> "none"]

\* The states of one acquisition (spec 4.6).
ACQUIRING(f) == f.pc \in {"call", "lookup", "missing", "enter", "flock"}
HELD(f)      == f.pc = "held"
FAILED(f)    == f.pc = "failed"

Frames(h) == {stack[h][d] : d \in 1..Depth(h)}
Holds(h, k)   == alive[h] /\ \E f \in Frames(h) : f.key = k /\ HELD(f)
Holding(k)    == {h \in Holders : Holds(h, k)}

\* ------------------------------------------------------- init_celery ---
\* The values of settings' 'lock_factory': absent, the three short names,
\* 'external', and the entry point of RedisLockFactory.
Missing    == "(missing)"
NotCalled  == "(not called)"
EntryPoint(cls) == "eat_your_vegetables.locks:" \o cls
Selectors  ==
    {Missing, "none", "proc", "file", "external", EntryPoint(RedisLockFactory)}

\* factory_name = config.settings.get('lock_factory', 'none') and the
\* if/elif that expands the short names.
factory_name_swapped(sel) ==
    IF sel = Missing \/ sel = "none" THEN EntryPoint(DummyLockFactory)
    ELSE IF sel = "proc" THEN EntryPoint(FileLockFactory)
    ELSE IF sel = "file" THEN EntryPoint(ProcessLockFactory)
    ELSE sel
factory_name(sel) ==
    LET name == IF sel = Missing THEN "none" ELSE sel IN
    IF name = "none" THEN EntryPoint(DummyLockFactory)
    ELSE IF name = "proc" THEN EntryPoint(ProcessLockFactory)
    ELSE IF name = "file" THEN EntryPoint(FileLockFactory)
    ELSE name

\* pkg_resources.EntryPoint.parse('x=' + name).load(False): the attribute
\* after the colon of the module before it.  A name without a module that
\* can be imported raises ImportError.
load(name) ==
    IF \E cls \in Factories : name = EntryPoint(cls)
    THEN CHOOSE cls \in Factories : name = EntryPoint(cls)
    ELSE "ImportError"

\* The constructors: FileLockFactory.__init__ makes lock_dir when it does
\* not exist (os.makedirs raises OSError when it cannot), and
\* RedisLockFactory.__init__ reads settings['redis_url'] (KeyError when the
\* setting is absent).  `ok` says whether the directory can be made and the
\* setting is there.
constructor(cls, ok) ==
    IF ok THEN "none"
    ELSE IF cls = FileLockFactory THEN "OSError"
    ELSE IF cls = RedisLockFactory THEN "KeyError"
    ELSE "none"

\* The lock state of a process in which no call has been made.
Idle ==
    /\ stack = [h \in Holders |-> <<>>]
    /\ observed = NoCall
    /\ alive = [h \in Holders |-> TRUE]
    /\ guard = 0
    /\ table = [k \in Keys |-> 0]
    /\ rlock = [l \in Keys \X Holders |-> Free]
    /\ flocked = [k \in Keys |-> NoFrame]
    /\ store = [k \in Keys |-> NoKey]

\* The module as imported: `lock = ImportWarningClass()`.
Init ==
    /\ lock_factory = NotCalled
    /\ error = "none"
    /\ inits = 0
    /\ made = 0
    /\ lock = 0
    /\ bound = [k \in Keys |-> 0]
    /\ factory = ImportWarningClass
    /\ expires \in 1..MaxExpires
    /\ timeout \in 0..MaxTimeout
    /\ Idle

\* init_celery(conf_file): the factory class is resolved and constructed,
\* and the global `lock` becomes a LockAnnotation around the new instance.
\* An error of load() or of the constructor leaves init_celery before
\* `lock` is assigned.
init_celery(sel, ok) ==
    /\ lock_factory' = sel
    /\ inits' = inits + 1
    /\ LET cls == load(factory_name(sel)) IN
         IF cls \notin Factories
         THEN error' = cls /\ UNCHANGED <<made, lock, factory>>
         ELSE IF constructor(cls, ok) # "none"
         THEN /\ error' = constructor(cls, ok)
              /\ UNCHANGED <<made, lock, factory>>
         ELSE /\ error' = "none"
              /\ made' = made + 1
              /\ lock' = made + 1
              /\ factory' = cls
    /\ UNCHANGED <<bound, expires, timeout, stack, observed, alive, guard,
                   table, rlock, flocked, store>>

\* worker(), beat() and flower() call init_celery once and then run the
\* celery program; an error of init_celery ends the process.
worker(sel, ok) ==
    /\ inits = 0
    /\ init_celery(sel, ok)

\* `@lock(key)` above a function, run when the task module is imported:
\* LockAnnotation.__call__ and wrapper() build wrapped() around the
\* annotation that `lock` is at that moment; the factory is not called.
\* Before init_celery `lock` is the ImportWarningClass, whose call raises.
wrapper_acquires(k) == [flocked EXCEPT ![k] = <<1, 1>>]
wrapper(k) == flocked

decorate(k) ==
    /\ lock # 0
    /\ bound[k] = 0
    /\ bound' = [bound EXCEPT ![k] = lock]
    /\ flocked' = wrapper(k)
    /\ UNCHANGED <<lock_factory, error, inits, made, lock, factory, expires,
                   timeout, stack, observed, alive, guard, table, rlock, store>>

\* ----------------------------------------------- LockAnnotation layer ---

\* `with cm: return fxn(...)`: the with statement runs cm.__exit__ on every
\* way out of the block, also when the block raises.
ExitRunsReturnOnly(out) == out.kind = "return"
ExitRuns(out) == TRUE

\* What the caller of wrapped() sees when fxn finished with `out`: no
\* __exit__ of the four context managers returns a true value (RLock and
\* retools return None, the two generators re-raise what is thrown into
\* them), so a raised error goes on to the caller as it is.
wrapped_swallow(out) == IF out.kind = "raise" THEN Return("None") ELSE out
wrapped_result(out) == out

\* A holder calls a decorated function (wrapped) or opens an inline scope
\* (`with lock.inline(key)`), from its top level or from inside a protected
\* section it is running; tasks run once the task modules are imported.
\* The two surfaces evaluate the same expression,
\* self._factory(key, expires=expires, timeout=timeout), and hand its value
\* to a with statement.  Only ProcessLockFactory.__call__ touches shared
\* state; the other three just build the context manager.
\* self._factory as wrapped() and as inline() evaluate it: the factory the
\* LockAnnotation was made with, for both.
inline_noop(k) == DummyLockFactory
inline(k) == factory
wrapped(k) == factory

Inline == {<<h, d>> \in Holders \X (1..MaxDepth) :
              d <= Depth(h) /\ stack[h][d].mode = "inline"}

Call(h, k, m) ==
    /\ factory \in Factories
    /\ \A j \in Keys : bound[j] # 0
    /\ m = "inline" => Cardinality(Inline) < MaxInline
    /\ alive[h]
    /\ Depth(h) < MaxDepth
    /\ Depth(h) > 0 => Top(h).pc = "held"
    /\ stack' = [stack EXCEPT ![h] = Append(@, NewFrame(k,
                    IF m = "inline" THEN inline(k) ELSE wrapped(k), m))]
    /\ UNCHANGED <<boot, factory, expires, timeout, observed, alive, guard,
                   table, rlock, flocked, store>>

\* __enter__ raised: the with statement runs neither its block nor __exit__,
\* and the error leaves wrapped().
Propagate(h) ==
    /\ At(h, "failed")
    /\ stack' = Pop(h)
    /\ observed' = [fxn |-> Nothing, saw |-> Raise(Top(h).err)]
    /\ UNCHANGED <<boot, factory, expires, timeout, alive, guard, table,
                   rlock, flocked, store>>

\* The protected section finished with `out` and __exit__ has run: the
\* frame leaves the with statement.
Leave(h, out) ==
    /\ stack' = Pop(h)
    /\ observed' = [fxn |-> out, saw |-> wrapped_result(out)]

\* ----------------------------------------------------- DummyLockFactory ---
\* DummyLockFactory.__call__ returns noop(), whose __enter__ runs to the
\* bare yield and whose __exit__ does nothing.
noop_exclusive(h) == \A g \in Holders \ {h} : ~Holds(g, Top(h).key)
noop(h) == TRUE

DummyEnter(h) ==
    /\ At(h, "enter")
    /\ Top(h).cls = DummyLockFactory
    /\ noop(h)
    /\ stack' = SetTop(h, [Top(h) EXCEPT !.pc = "held"])
    /\ UNCHANGED <<boot, factory, expires, timeout, observed, alive, guard,
                   table, rlock, flocked, store>>

DummyExit(h, out) ==
    /\ At(h, "held")
    /\ Top(h).cls = DummyLockFactory
    /\ Leave(h, out)
    /\ UNCHANGED <<boot, factory, expires, timeout, alive, guard, table,
                   rlock, flocked, store>>

\* --------------------------------------------------- ProcessLockFactory ---
\* `with self._lock:` of ProcessLockFactory.__call__: entered when no other
\* thread is inside it.
without_lock(h) == TRUE
with_lock(h) == guard = 0

ProcGuard(h) ==
    /\ At(h, "call")
    /\ Top(h).cls = ProcessLockFactory
    /\ with_lock(h)
    /\ guard' = h
    /\ stack' = SetTop(h, [Top(h) EXCEPT !.pc = "lookup"])
    /\ UNCHANGED <<boot, factory, expires, timeout, observed, alive, table,
                   rlock, flocked, store>>

\* `self._locks[key]` with the key present: the stored lock is returned and
\* the guard released.  With the key absent defaultdict.__missing__ starts.
\* The return leaves `with self._lock`: the guard is free again before the
\* caller does anything with the lock it was handed.
lock_kept(h) == h
lock_exit(h) == 0

ProcLookup(h) ==
    /\ At(h, "lookup")
    /\ Top(h).cls = ProcessLockFactory
    /\ IF table[Top(h).key] # 0
       THEN /\ stack' = SetTop(h, [Top(h) EXCEPT !.pc = "enter",
                                                 !.ref = table[Top(h).key]])
            /\ guard' = lock_exit(h)
       ELSE /\ stack' = SetTop(h, [Top(h) EXCEPT !.pc = "missing"])
            /\ guard' = guard
    /\ UNCHANGED <<boot, factory, expires, timeout, observed, alive, table,
                   rlock, flocked, store>>

\* defaultdict.__missing__: RLock() makes a new lock object, which is stored
\* under the key and returned; the guard is released.
ProcMissing(h) ==
    /\ At(h, "missing")
    /\ Top(h).cls = ProcessLockFactory
    /\ table' = [table EXCEPT ![Top(h).key] = h]
    /\ stack' = SetTop(h, [Top(h) EXCEPT !.pc = "enter", !.ref = h])
    /\ guard' = lock_exit(h)
    /\ UNCHANGED <<boot, factory, expires, timeout, observed, alive, rlock,
                   flocked, store>>

\* RLock.acquire(): free, or owned by the caller (recursion).
LockAcquirable(l, h) == l.owner = 0
RLockAcquirable(l, h) == l.owner = 0 \/ l.owner = h

\* The with statement calls RLock.__enter__, which is acquire() with its
\* defaults: it blocks, and without a timeout.  The `expires` and `timeout`
\* of ProcessLockFactory.__call__ reach no lock.
acquire_with_timeout(h) == Top(h).waited >= timeout
acquire_gives_up(h) == FALSE

ProcEnter(h) ==
    /\ At(h, "enter")
    /\ Top(h).cls = ProcessLockFactory
    /\ LET l == <<Top(h).key, Top(h).ref>> IN
         IF RLockAcquirable(rlock[l], h)
         THEN /\ rlock' = [rlock EXCEPT
                             ![l] = [owner |-> h, count |-> @.count + 1]]
              /\ stack' = SetTop(h, [Top(h) EXCEPT !.pc = "held"])
         ELSE /\ acquire_gives_up(h)
              /\ rlock' = rlock
              /\ stack' = SetTop(h, [Top(h) EXCEPT !.pc = "failed",
                                                   !.err = LockTimeout])
    /\ UNCHANGED <<boot, factory, expires, timeout, observed, alive, guard,
                   table, flocked, store>>

\* RLock.release(): one level less; free at level 0.
RLockReleaseKeepsOwner(l) == [l EXCEPT !.count = @ - 1]
RLockReleaseAll(l) == Free
RLockRelease(l) ==
    IF l.count = 1 THEN Free ELSE [l EXCEPT !.count = @ - 1]

ProcExit(h, out) ==
    /\ At(h, "held")
    /\ Top(h).cls = ProcessLockFactory
    /\ LET l == <<Top(h).key, Top(h).ref>> IN
         rlock' = IF ExitRuns(out)
                  THEN [rlock EXCEPT ![l] = RLockRelease(@)]
                  ELSE rlock
    /\ Leave(h, out)
    /\ UNCHANGED <<boot, factory, expires, timeout, alive, guard, table,
                   flocked, store>>

\* ------------------------------------------------------ FileLockFactory ---
\* file_lock: open(filename, "w") of the key's file under lock_dir.
FileOpen(h) ==
    /\ At(h, "enter")
    /\ Top(h).cls = FileLockFactory
    /\ stack' = SetTop(h, [Top(h) EXCEPT !.pc = "flock"])
    /\ UNCHANGED <<boot, factory, expires, timeout, observed, alive, guard,
                   table, rlock, flocked, store>>

\* open() raises IOError (the directory is gone, no permission, ...): the
\* error leaves file_lock before flock and before the yield.
open_error_passed_over(f) == [f EXCEPT !.pc = "held"]
open_raises(f) == [f EXCEPT !.pc = "failed", !.err = IOError]

FileOpenFails(h) ==
    /\ At(h, "enter")
    /\ Top(h).cls = FileLockFactory
    /\ stack' = SetTop(h, open_raises(Top(h)))
    /\ UNCHANGED <<boot, factory, expires, timeout, observed, alive, guard,
                   table, rlock, flocked, store>>

\* fcntl.flock(lockfile, fcntl.LOCK_EX): granted when no other open file
\* holds a lock on the key's file.  Every open() makes an open file of its
\* own, so a second open by the same process conflicts like any other.
flock_LOCK_SH(k) == TRUE
flock_LOCK_EX(k) == flocked[k] = NoFrame

FileFlock(h) ==
    /\ At(h, "flock")
    /\ Top(h).cls = FileLockFactory
    /\ flock_LOCK_EX(Top(h).key)
    /\ flocked' = [flocked EXCEPT ![Top(h).key] = <<h, Depth(h)>>]
    /\ stack' = SetTop(h, [Top(h) EXCEPT !.pc = "held"])
    /\ UNCHANGED <<boot, factory, expires, timeout, observed, alive, guard,
                   table, rlock, store>>

\* Leaving `with open(...) as lockfile` closes the file, which drops its lock.
CloseFile(h, d) ==
    [k \in Keys |-> IF flocked[k] = <<h, d>> THEN NoFrame ELSE flocked[k]]

FileExit(h, out) ==
    /\ At(h, "held")
    /\ Top(h).cls = FileLockFactory
    /\ flocked' = IF ExitRuns(out) THEN CloseFile(h, Depth(h)) ELSE flocked
    /\ Leave(h, out)
    /\ UNCHANGED <<boot, factory, expires, timeout, alive, guard, table,
                   rlock, store>>

\* ----------------------------------------------------- RedisLockFactory ---
\* Lock(key, expires=expires, timeout=timeout, redis=self.redis)
LockArgsSwapped == [expires |-> timeout, timeout |-> expires]
LockArgs == [expires |-> expires, timeout |-> timeout]

\* The counters of a frame stop where no comparison can tell them apart.
AgeCap == IF expires > timeout THEN expires ELSE timeout

\* Lock.__enter__ got the key (SETNX on a key that is absent or expired):
\* the key now lives for `expires`.
RedisAcquire(h) ==
    /\ At(h, "enter")
    /\ Top(h).cls = RedisLockFactory
    /\ store[Top(h).key] = NoKey
    /\ store' = [store EXCEPT ![Top(h).key] =
                    [owner |-> <<h, Depth(h)>>, ttl |-> LockArgs.expires]]
    /\ stack' = SetTop(h, [Top(h) EXCEPT !.pc = "held", !.waited = 0])
    /\ UNCHANGED <<boot, factory, expires, timeout, observed, alive, guard,
                   table, rlock, flocked>>

\* Lock.__enter__ polled for `timeout` and the key was still taken.
RedisTimeout(h) ==
    /\ At(h, "enter")
    /\ Top(h).cls = RedisLockFactory
    /\ store[Top(h).key] # NoKey
    /\ Top(h).waited >= LockArgs.timeout
    /\ stack' = SetTop(h, [Top(h) EXCEPT !.pc = "failed", !.err = LockTimeout])
    /\ UNCHANGED <<boot, factory, expires, timeout, observed, alive, guard,
                   table, rlock, flocked, store>>

\* Lock.__exit__ deletes the key when the section ended within `expires`;
\* later the key has expired and may be another holder's.
RedisExit(h, out) ==
    /\ At(h, "held")
    /\ Top(h).cls = RedisLockFactory
    /\ store' = IF ExitRuns(out) /\ Top(h).age < LockArgs.expires
                THEN [store EXCEPT ![Top(h).key] = NoKey]
                ELSE store
    /\ Leave(h, out)
    /\ UNCHANGED <<boot, factory, expires, timeout, alive, guard, table,
                   rlock, flocked>>

\* One unit of time passes: Redis counts the keys' TTLs down and drops the
\* keys that reach 0; sections grow older, waiters wait longer.  A waiter
\* whose timeout is up takes its last poll before time goes on.
Older(h, f) ==
    IF f.pc = "held" THEN [f EXCEPT !.age = IF @ < AgeCap THEN @ + 1 ELSE @]
    ELSE IF f.pc = "enter" /\ alive[h] THEN [f EXCEPT !.waited = @ + 1]
    ELSE f

Tick ==
    /\ factory = RedisLockFactory
    /\ \A h \in Holders : At(h, "enter") => Top(h).waited < LockArgs.timeout
    /\ stack' = [h \in Holders |->
                    [d \in 1..Depth(h) |-> Older(h, stack[h][d])]]
    /\ store' = [k \in Keys |->
                    IF store[k] = NoKey \/ store[k].ttl <= 1 THEN NoKey
                    ELSE [store[k] EXCEPT !.ttl = @ - 1]]
    /\ UNCHANGED <<boot, factory, expires, timeout, observed, alive, guard,
                   table, rlock, flocked>>

\* ---------------------------------------------------------- the process ---
\* A worker process of the file or the external backend dies inside a
\* protected section: no __exit__ runs.  The OS closes its files; Redis
\* knows nothing of it.
\* A flock lock belongs to the open file: it goes when the process exits.
lockfile_exists_after_exit(h) == flocked
flock_after_exit(h) ==
    [k \in Keys |-> IF flocked[k][1] = h THEN NoFrame ELSE flocked[k]]

Crash(h) ==
    /\ factory \in {FileLockFactory, RedisLockFactory}
    /\ At(h, "held")
    /\ alive' = [alive EXCEPT ![h] = FALSE]
    /\ flocked' = flock_after_exit(h)
    /\ UNCHANGED <<boot, factory, expires, timeout, stack, observed, guard,
                   table, rlock, store>>

Next ==
    \/ \E sel \in Selectors, ok \in BOOLEAN : worker(sel, ok)
    \/ \E k \in Keys : decorate(k)
    \/ \E h \in Holders, k \in Keys, m \in Modes : Call(h, k, m)
    \/ \E h \in Holders : DummyEnter(h)
    \/ \E h \in Holders, out \in Outcomes : DummyExit(h, out)
    \/ \E h \in Holders : ProcGuard(h)
    \/ \E h \in Holders : ProcLookup(h)
    \/ \E h \in Holders : ProcMissing(h)
    \/ \E h \in Holders : ProcEnter(h)
    \/ \E h \in Holders, out \in Outcomes : ProcExit(h, out)
    \/ \E h \in Holders : FileOpen(h)
    \/ \E h \in Holders : FileOpenFails(h)
    \/ \E h \in Holders : FileFlock(h)
    \/ \E h \in Holders, out \in Outcomes : FileExit(h, out)
    \/ \E h \in Holders : RedisAcquire(h)
    \/ \E h \in Holders : RedisTimeout(h)
    \/ \E h \in Holders, out \in Outcomes : RedisExit(h, out)
    \/ \E h \in Holders : Propagate(h)
    \/ \E h \in Holders : Crash(h)
    \/ Tick

Spec == Init /\ [][Next]_vars

\* What holder h itself can do next.
HolderNext(h) ==
    \/ \E k \in Keys, m \in Modes : Call(h, k, m)
    \/ DummyEnter(h)
    \/ \E out \in Outcomes : DummyExit(h, out)
    \/ ProcGuard(h)
    \/ ProcLookup(h)
    \/ ProcMissing(h)
    \/ ProcEnter(h)
    \/ \E out \in Outcomes : ProcExit(h, out)
    \/ FileOpen(h)
    \/ FileOpenFails(h)
    \/ FileFlock(h)
    \/ \E out \in Outcomes : FileExit(h, out)
    \/ RedisAcquire(h)
    \/ RedisTimeout(h)
    \/ \E out \in Outcomes : RedisExit(h, out)
    \/ Propagate(h)

\* The in-process backend alone, with the scheduling the threads get: an
\* acquire() that stays possible returns.
Started(sel, cls) ==
    /\ lock_factory = sel
    /\ error = "none"
    /\ inits = 1
    /\ made = 1
    /\ lock = 1
    /\ bound = [k \in Keys |-> 1]
    /\ factory = cls
    /\ expires \in 1..MaxExpires
    /\ timeout \in 0..MaxTimeout
    /\ Idle

ProcInit == Started("proc", ProcessLockFactory)

ProcNext ==
    \/ \E h \in Holders, k \in Keys, m \in Modes : Call(h, k, m)
    \/ \E h \in Holders : ProcGuard(h)
    \/ \E h \in Holders : ProcLookup(h)
    \/ \E h \in Holders : ProcMissing(h)
    \/ \E h \in Holders : ProcEnter(h)
    \/ \E h \in Holders, out \in Outcomes : ProcExit(h, out)

ProcFair ==
    ProcInit /\ [][ProcNext]_vars /\ \A h \in Holders : WF_vars(ProcEnter(h))

\* The file backend alone, with the scheduling the processes get: a flock()
\* that stays possible returns.
FileInit == Started("file", FileLockFactory)

FileNext ==
    \/ \E h \in Holders, k \in Keys, m \in Modes : Call(h, k, m)
    \/ \E h \in Holders : FileOpen(h)
    \/ \E h \in Holders : FileOpenFails(h)
    \/ \E h \in Holders : FileFlock(h)
    \/ \E h \in Holders, out \in Outcomes : FileExit(h, out)
    \/ \E h \in Holders : Propagate(h)
    \/ \E h \in Holders : Crash(h)

FileFair ==
    FileInit /\ [][FileNext]_vars /\ \A h \in Holders : WF_vars(FileFlock(h))

\* init_celery as a library function: nothing in it keeps a program from
\* calling it again, and task modules can be imported between the calls.
reinit(sel, ok) ==
    /\ inits < MaxInits
    /\ init_celery(sel, ok)

BootNext ==
    \/ \E sel \in Selectors, ok \in BOOLEAN : reinit(sel, ok)
    \/ \E k \in Keys : decorate(k)

BootSpec == Init /\ [][BootNext]_vars

\* ================================================================ claims ===

\* C1  In-process and file backend, one factory: in every reachable state
\* and for every key, at most one holder is in HELD for the key.
C1_MutualExclusion ==
    factory \in {ProcessLockFactory, FileLockFactory} =>
        \A k \in Keys : Cardinality(Holding(k)) <= 1

\* C1 witness: under the file backend one holder is in HELD for a key while
\* another has the key's file open and waits in flock.
C1_Witness ==
    /\ factory = FileLockFactory
    /\ \E h1, h2 \in Holders :
         /\ h1 # h2
         /\ At(h2, "flock")
         /\ Holds(h1, Top(h2).key)

\* C2  Release on failure, every backend: once the protected section of a
\* call has raised and the error has reached the caller, no lock is left
\* with an acquisition that is over (the file's lock and the Redis key
\* belong to a section still open, the RLock's level is the number of its
\* owner's open sections), and a key no open section holds is free to take.
OpenHolds(k) ==
    {<<h, d>> \in Holders \X (1..MaxDepth) :
        d <= Depth(h) /\ stack[h][d].key = k /\ HELD(stack[h][d])}

LockFree(k) ==
    /\ flocked[k] = NoFrame
    /\ store[k] = NoKey
    /\ \A c \in Holders : rlock[<<k, c>>] = Free

NoResidualHold(k) ==
    /\ flocked[k] # NoFrame => flocked[k] \in OpenHolds(k)
    /\ store[k] # NoKey => store[k].owner \in OpenHolds(k)
    /\ \A c \in Holders :
         rlock[<<k, c>>].count =
             Cardinality({o \in OpenHolds(k) :
                 o[1] = rlock[<<k, c>>].owner /\ stack[o[1]][o[2]].ref = c})
    /\ OpenHolds(k) = {} => LockFree(k)

C2_ReleaseOnFailure ==
    observed.fxn.kind = "raise" => \A k \in Keys : NoResidualHold(k)

\* C2 witness: under the file backend a protected section raised e1, the
\* error reached the caller, and now nobody is in a call and every lock is
\* free.
C2_Witness ==
    /\ factory = FileLockFactory
    /\ observed = [fxn |-> Raise("e1"), saw |-> Raise("e1")]
    /\ \A h \in Holders : Depth(h) = 0
    /\ \A k \in Keys : LockFree(k)

Nested(h) ==
    /\ At(h, "enter")
    /\ \E d \in 1..(Depth(h) - 1) :
         stack[h][d].key = Top(h).key /\ HELD(stack[h][d])

C4_Reentrant ==
    factory = ProcessLockFactory =>
        \A h \in Holders : Nested(h) => ENABLED ProcEnter(h)

\* C4 witness: a holder is in HELD twice for one key (the RLock is at level
\* 2) while another holder waits for that key.
C4_Witness ==
    /\ factory = ProcessLockFactory
    /\ \E h, g \in Holders, k \in Keys :
         /\ g # h
         /\ Depth(h) = 2
         /\ \A d \in 1..2 : stack[h][d].key = k /\ HELD(stack[h][d])
         /\ rlock[<<k, table[k]>>] = [owner |-> h, count |-> 2]
         /\ At(g, "enter")
         /\ Top(g).key = k

\* C5  In-process backend, contention: a holder that asks for a key another
\* holder is in HELD for cannot enter (it stays in ACQUIRING); once the key's
\* lock is free a waiting holder reaches HELD, unless another holder takes
\* the lock first; the holder that released has nothing more to do.
Waits(h, k) == At(h, "enter") /\ Top(h).key = k

C5_Blocked ==
    \A h \in Holders, k \in Keys :
        (Waits(h, k) /\ \E g \in Holders \ {h} : Holds(g, k))
            => ~ENABLED ProcEnter(h)

C5_Contention ==
    /\ []C5_Blocked
    /\ \A h \in Holders, k \in Keys :
         (Waits(h, k) /\ Holding(k) = {})
            ~> (Holds(h, k) \/ \E g \in Holders \ {h} : Holds(g, k))

\* C5 witness: holder 1 is in HELD for key 1 and holder 2, which asked for
\* key 1, waits.
C5_Witness ==
    /\ factory = ProcessLockFactory
    /\ Holds(1, 1)
    /\ Depth(1) = 1
    /\ Waits(2, 1)

\* C6  No-op backend: an acquisition never blocks and never fails, whatever
\* the key and whoever else is in HELD for it.
C6_NeverBlocks ==
    factory = DummyLockFactory =>
        \A h \in Holders :
            /\ \A f \in Frames(h) : ~FAILED(f)
            /\ At(h, "enter") => ENABLED DummyEnter(h)

\* C6 witness: two holders are inside the protected section of one key at
\* the same time.
C6_Witness ==
    /\ factory = DummyLockFactory
    /\ \E k \in Keys : Cardinality(Holding(k)) = 2

\* C7  External backend, expiry: while an acquisition of a key that was
\* never released (its holder crashed or hangs) is younger than `expires`,
\* no acquisition of the key made after it is in HELD; once every unreleased
\* acquisition of the key is `expires` old, a contender that asks for the
\* key gets it.
Age(o) == stack[o[1]][o[2]].age

C7_NotBefore ==
    \A k \in Keys : \A o1, o2 \in OpenHolds(k) :
        (o1 # o2 /\ Age(o1) < expires) => Age(o2) > Age(o1)

C7_After ==
    \A h \in Holders, k \in Keys :
        (Waits(h, k) /\ OpenHolds(k) # {}
            /\ \A o \in OpenHolds(k) : Age(o) >= expires)
        => ENABLED RedisAcquire(h)

C7_Expiry == factory = RedisLockFactory => C7_NotBefore /\ C7_After

\* C7 witness: a holder crashed inside the section of a key, no call has
\* ever finished (nothing was released), and a contender is in HELD for the
\* key.
C7_Witness ==
    /\ factory = RedisLockFactory
    /\ \E h1, h2 \in Holders, k \in Keys :
         /\ ~alive[h1]
         /\ Depth(h1) = 1
         /\ stack[h1][1].key = k /\ HELD(stack[h1][1])
         /\ Holds(h2, k)
         /\ observed = NoCall

\* C8 as claimed: under the external backend at most one holder is in HELD
\* for a key, also when a live holder's section outlasts `expires`.
C8_Original ==
    factory = RedisLockFactory =>
        \A k \in Keys : Cardinality(Holding(k)) <= 1

\* C8  External backend: at most one holder is in HELD for a key with a
\* section younger than `expires`.
HoldsFresh(h, k) ==
    alive[h] /\ \E f \in Frames(h) : f.key = k /\ HELD(f) /\ f.age < expires

C8_MutualExclusionWithinExpires ==
    factory = RedisLockFactory =>
        \A k \in Keys : Cardinality({h \in Holders : HoldsFresh(h, k)}) <= 1

\* C8 witness: two live holders are in HELD for one key, the first for
\* `expires` or longer, the second for less.
C8_Witness ==
    /\ factory = RedisLockFactory
    /\ \E h1, h2 \in Holders, k \in Keys :
         /\ h1 # h2
         /\ Holds(h1, k) /\ ~HoldsFresh(h1, k)
         /\ HoldsFresh(h2, k)

\* C9  External backend, timeout: an attempt cannot enter while the key is
\* taken; it waits no longer than `timeout`, and when the key is still taken
\* then it fails; a failed attempt carries LockTimeout, which is what its
\* caller gets next; and a call that ended in LockTimeout never ran its
\* protected section.
C9_Attempt(h) ==
    /\ (Top(h).pc = "enter" /\ store[Top(h).key] # NoKey)
          => ~ENABLED RedisAcquire(h)
    /\ Top(h).pc = "enter" => Top(h).waited <= timeout
    /\ (Top(h).pc = "enter" /\ store[Top(h).key] # NoKey
          /\ Top(h).waited = timeout) => ENABLED RedisTimeout(h)
    /\ FAILED(Top(h)) =>
          /\ Top(h).err = LockTimeout
          /\ Top(h).waited = timeout
          /\ ENABLED Propagate(h)

C9_Timeout ==
    factory = RedisLockFactory =>
        /\ \A h \in Holders : (alive[h] /\ Depth(h) > 0) => C9_Attempt(h)
        /\ observed.saw = Raise(LockTimeout) => observed.fxn = Nothing

\* C9 witness: with a timeout above 0 a call ended in LockTimeout without
\* its function having been called.
C9_Witness ==
    /\ factory = RedisLockFactory
    /\ timeout > 0
    /\ observed.fxn = Nothing
    /\ observed.saw = Raise(LockTimeout)

\* C10  File backend: a second acquisition of a key cannot get the lock
\* while a live holder is in HELD for the key; when the holder's process
\* exits inside the section the lock on the key's file is free at once, and
\* a contender blocked in flock on a free lock reaches HELD, unless another
\* holder takes the lock first.
FileWaits(h, k) == At(h, "flock") /\ Top(h).key = k

C10_Blocked ==
    \A h \in Holders, k \in Keys :
        (factory = FileLockFactory /\ FileWaits(h, k)
            /\ \E g \in Holders \ {h} : Holds(g, k))
        => ~ENABLED FileFlock(h)

C10_ExitFrees ==
    \A h \in Holders, k \in Keys :
        (factory = FileLockFactory /\ Holds(h, k) /\ ~alive'[h])
        => flocked'[k] = NoFrame

C10_Reclamation ==
    /\ []C10_Blocked
    /\ [][C10_ExitFrees]_vars
    /\ \A h \in Holders, k \in Keys :
         (FileWaits(h, k) /\ flocked[k] = NoFrame)
            ~> (Holds(h, k) \/ \E g \in Holders \ {h} : Holds(g, k))

\* C10 witness: a holder's process exited inside the section of a key, no
\* call has ever finished (nothing was released), and a contender is in
\* HELD for the key.
C10_Witness ==
    /\ factory = FileLockFactory
    /\ observed = NoCall
    /\ \E h1, h2 \in Holders, k \in Keys :
         /\ ~alive[h1]
         /\ Depth(h1) = 1
         /\ stack[h1][1].key = k /\ HELD(stack[h1][1])
         /\ Holds(h2, k)

\* C11 as claimed: each of none, proc, file and external, and a missing
\* selector, is resolved to its factory class: init_celery raises no import
\* error for it, and when the constructor succeeds `lock` wraps an instance
\* of that class.
C11_Claimed(sel) ==
    IF sel \in {Missing, "none"} THEN DummyLockFactory
    ELSE IF sel = "proc" THEN ProcessLockFactory
    ELSE IF sel = "file" THEN FileLockFactory
    ELSE RedisLockFactory

C11_Original ==
    lock_factory \in {Missing, "none", "proc", "file", "external"} =>
        /\ error # "ImportError"
        /\ error = "none" => factory = C11_Claimed(lock_factory)

\* C11  Backend selection: none and a missing selector give
\* DummyLockFactory, proc gives ProcessLockFactory, file gives
\* FileLockFactory (when its directory can be made); every other value is
\* read as an entry point, so RedisLockFactory is selected by its entry
\* point name; 'external' names no module: init_celery raises ImportError
\* and `lock` stays what it was.
C11_BackendSelection ==
    /\ lock_factory \in {Missing, "none"} =>
          error = "none" /\ factory = DummyLockFactory
    /\ lock_factory = "proc" =>
          error = "none" /\ factory = ProcessLockFactory
    /\ lock_factory = "file" =>
          /\ error \in {"none", "OSError"}
          /\ error = "none" => factory = FileLockFactory
    /\ lock_factory = EntryPoint(RedisLockFactory) =>
          /\ error \in {"none", "KeyError"}
          /\ error = "none" => factory = RedisLockFactory
    /\ lock_factory = "external" =>
          /\ error = "ImportError"
          /\ inits = 1 => lock = 0 /\ factory = ImportWarningClass

\* C11 witness: the first init_celery call failed on 'external', the second
\* named RedisLockFactory by its entry point and installed it.
C11_Witness ==
    /\ inits = 2
    /\ made = 1
    /\ lock_factory = EntryPoint(RedisLockFactory)
    /\ error = "none"
    /\ factory = RedisLockFactory

\* C12  Registry of the in-process backend: every caller that was handed a
\* lock for a key holds the lock object the table has under the key, no
\* other lock object of the key is in use, one thread at a time is inside
\* the guard, and no step replaces or removes an entry of the table.
InGuard == {h \in Holders : At(h, "lookup") \/ At(h, "missing")}

C12_OneLockPerKey ==
    factory = ProcessLockFactory =>
        /\ \A h \in Holders : \A f \in Frames(h) :
              f.ref # 0 => f.ref = table[f.key]
        /\ \A k \in Keys, c \in Holders :
              rlock[<<k, c>>] # Free => table[k] = c
        /\ Cardinality(InGuard) <= 1
        /\ \A h \in InGuard : guard = h

C12_NeverReplaced ==
    \A k \in Keys : table[k] # 0 => table'[k] = table[k]

C12_RegistryIntegrity == []C12_OneLockPerKey /\ [][C12_NeverReplaced]_vars

\* C12 witness: the two holders touched the two keys for the first time at
\* the same time, each made the lock of one key, and both now hold the same
\* lock object for key 1: holder 1 is in HELD, holder 2 waits.
C12_Witness ==
    /\ factory = ProcessLockFactory
    /\ table = <<2, 1>>
    /\ Depth(1) = 2 /\ Depth(2) = 1
    /\ stack[1][1].key = 2 /\ stack[1][1].ref = 1
    /\ stack[1][2].key = 1 /\ stack[1][2].ref = 2 /\ HELD(stack[1][2])
    /\ stack[2][1].key = 1 /\ stack[2][1].ref = 2 /\ ACQUIRING(stack[2][1])

\* C13  The in-process backend ignores `expires` and `timeout`, whatever
\* their values: no acquisition is ever FAILED, a holder in HELD for a key
\* owns the key's lock however long it keeps it, and a contender for a key
\* another holder is in HELD for has no step to take: it stays in ACQUIRING.
C13_IgnoresExpiresAndTimeout ==
    factory = ProcessLockFactory =>
        /\ \A h \in Holders : \A f \in Frames(h) : ~FAILED(f)
        /\ \A h \in Holders, k \in Keys :
              Holds(h, k) => rlock[<<k, table[k]>>].owner = h
        /\ \A h \in Holders, k \in Keys :
              (Waits(h, k) /\ \E g \in Holders \ {h} : Holds(g, k))
                  => ACQUIRING(Top(h)) /\ ~ENABLED HolderNext(h)

\* C13 witness: with `timeout` 0 and `expires` 1 a holder is in HELD for
\* key 2; the other holder made the lock of key 1, a call has finished, and
\* it now waits for key 2.
C13_Witness ==
    /\ factory = ProcessLockFactory
    /\ timeout = 0
    /\ expires = 1
    /\ observed.fxn # Nothing
    /\ \E h, g \in Holders :
         /\ h # g
         /\ Depth(h) = 1 /\ Holds(h, 2)
         /\ table[1] = g
         /\ Waits(g, 2)

\* C14  File backend, I/O failure: when the lock directory cannot be made
\* the constructor's error ends init_celery, there is no factory and no
\* call is ever made; when the key's file cannot be opened the acquisition
\* is FAILED with IOError, which is what its caller gets next, the
\* protected section is not run, and the locks stay as they were: every
\* lock belongs to an open section and every live section in HELD has its
\* lock.
C14_NoFactory ==
    (lock_factory = "file" /\ error = "OSError") =>
        /\ made = 0 /\ lock = 0
        /\ factory = ImportWarningClass
        /\ \A h \in Holders : Depth(h) = 0
        /\ \A k \in Keys : bound[k] = 0

C14_OpenFails ==
    factory = FileLockFactory =>
        /\ \A h \in Holders :
              (alive[h] /\ Depth(h) > 0 /\ FAILED(Top(h))) =>
                  /\ Top(h).err = IOError
                  /\ ENABLED Propagate(h)
        /\ observed.saw = Raise(IOError) => observed.fxn = Nothing
        /\ \A k \in Keys :
              /\ flocked[k] # NoFrame => flocked[k] \in OpenHolds(k)
              /\ \A o \in OpenHolds(k) : alive[o[1]] => flocked[k] = o

C14_IOFailure == C14_NoFactory /\ C14_OpenFails

\* C14 witness: a call ended in IOError without its function having been
\* called, while the other holder is in HELD for key 1 with its lock.
C14_Witness ==
    /\ factory = FileLockFactory
    /\ observed = [fxn |-> Nothing, saw |-> Raise(IOError)]
    /\ \E h \in Holders :
         /\ Depth(h) = 1 /\ Holds(h, 1)
         /\ flocked[1] = <<h, 1>>
         /\ \A g \in Holders \ {h} : Depth(g) = 0

\* The lock of its key is with frame o: the RLock is owned by o's holder,
\* the lock on the file belongs to o's open file, the Redis key is o's or
\* has run out after `expires`.
Owns(o) ==
    LET f == stack[o[1]][o[2]] IN
    /\ f.cls = ProcessLockFactory => rlock[<<f.key, f.ref>>].owner = o[1]
    /\ f.cls = FileLockFactory => flocked[f.key] = o
    /\ f.cls = RedisLockFactory =>
          store[f.key].owner = o \/ f.age >= expires

Open(m) ==
    {<<h, d>> \in Holders \X (1..MaxDepth) :
        alive[h] /\ d <= Depth(h) /\ stack[h][d].mode = m}

\* C15  Decorator mode on the in-process, file and external backend:
\* decorating takes no lock (while no call has been made every lock is free
\* and the registry is empty); the body of a decorated function runs only
\* in a frame that is in HELD and has the lock of its key; and once a call
\* has returned or raised, no lock is left with an acquisition that is
\* over.
C15_DecoratorMode ==
    factory \in {ProcessLockFactory, FileLockFactory, RedisLockFactory} =>
        /\ (observed = NoCall /\ \A h \in Holders : Depth(h) = 0) =>
              \A k \in Keys : LockFree(k) /\ table[k] = 0
        /\ \A o \in Open("wrapped") : HELD(stack[o[1]][o[2]]) => Owns(o)
        /\ observed.fxn # Nothing => \A k \in Keys : NoResidualHold(k)

\* C15 witness: both keys have a decorated function; a decorated call has
\* returned v1, holder 1 is inside a decorated function of key 1 and owns
\* its RLock, and holder 2, which called one too, waits.
C15_Witness ==
    /\ factory = ProcessLockFactory
    /\ \A k \in Keys : bound[k] = 1
    /\ observed = [fxn |-> Return("v1"), saw |-> Return("v1")]
    /\ Inline = {}
    /\ Depth(1) = 1 /\ Depth(2) = 1
    /\ Holds(1, 1) /\ rlock[<<1, table[1]>>] = [owner |-> 1, count |-> 1]
    /\ Waits(2, 1)

\* C16  Inline mode: an inline scope gets its context manager from the
\* factory in `lock`, as a decorated call does; a scope that is not yet
\* entered is not in HELD and has no lock; its block runs only in HELD with
\* the lock of its key; when no inline scope is open no lock is left with
\* an acquisition that is over; and an inline scope and a decorated call of
\* two holders are in HELD for one key only where the backend lets two
\* decorated calls be: under the no-op backend, and under the external
\* backend when one of the two has run for `expires`.
C16_SameFactory ==
    \A h \in Holders : \A f \in Frames(h) : f.cls = factory

C16_Scope(o) ==
    LET f == stack[o[1]][o[2]] IN
    /\ HELD(f) => Owns(o)
    /\ ~HELD(f) => flocked[f.key] # o /\ store[f.key].owner # o

C16_Excluded(o1, o2) ==
    LET f1 == stack[o1[1]][o1[2]]
        f2 == stack[o2[1]][o2[2]] IN
    (o1[1] # o2[1] /\ f1.key = f2.key /\ HELD(f1) /\ HELD(f2)) =>
        \/ factory = DummyLockFactory
        \/ factory = RedisLockFactory
              /\ (f1.age >= expires \/ f2.age >= expires)

C17_ConstructedOnce ==
    /\ made <= 1
    /\ \A k \in Keys : bound[k] # 0 => bound[k] = lock

\* C18  Nested holds of the in-process backend are counted: while a holder
\* has n > 0 scopes in HELD for a key, the key's lock is that holder's at
\* level n, whichever of its scopes have exited before and however they
\* exited, and a holder that waits for the key cannot enter.
HeldBy(h, k) ==
    {d \in 1..Depth(h) : stack[h][d].key = k /\ HELD(stack[h][d])}

C18_NestedCounted ==
    factory = ProcessLockFactory =>
        \A h \in Holders, k \in Keys :
            HeldBy(h, k) # {} =>
                /\ rlock[<<k, table[k]>>] =
                      [owner |-> h, count |-> Cardinality(HeldBy(h, k))]
                /\ \A g \in Holders \ {h} :
                      /\ HeldBy(g, k) = {}
                      /\ Waits(g, k) => ~ENABLED ProcEnter(g)

\* C18 witness: a scope has exited by raising e1 and only key 1 was ever
\* used; holder 1 is in HELD for key 1 in one scope, owns its lock at
\* level 1, and holder 2 waits for it.
C18_Witness ==
    /\ factory = ProcessLockFactory
    /\ observed.fxn = Raise("e1")
    /\ table[2] = 0
    /\ HeldBy(1, 1) = {1}
    /\ Depth(1) = 1
    /\ rlock[<<1, table[1]>>] = [owner |-> 1, count |-> 1]
    /\ Waits(2, 1)

\* C19  Key independence of the in-process backend: the guard is taken
\* only by a holder that is inside the table lookup, never by one that
\* waits for or is inside a protected section; a holder inside the lookup
\* can always finish it; and a holder that waits for a key no other holder
\* is in HELD for can enter, whoever holds or waits for another key.
C19_KeyIndependence ==
    factory = ProcessLockFactory =>
        /\ guard # 0 => guard \in InGuard
        /\ \A h \in Holders :
              /\ (At(h, "call") /\ guard = 0) => ENABLED ProcGuard(h)
              /\ At(h, "lookup") => ENABLED ProcLookup(h)
              /\ At(h, "missing") => ENABLED ProcMissing(h)
        /\ \A h \in Holders, k \in Keys :
              (Waits(h, k) /\ \A g \in Holders \ {h} : ~Holds(g, k))
                  => ENABLED ProcEnter(h)

\* C19 witness: holder 1 is in HELD for key 1; holder 2 is in HELD for key
\* 2 and, inside that section, waits for key 1.
C19_Witness ==
    /\ factory = ProcessLockFactory
    /\ Depth(1) = 1 /\ Holds(1, 1)
    /\ Depth(2) = 2 /\ stack[2][1].key = 2 /\ HELD(stack[2][1])
    /\ Waits(2, 1)
    /\ guard = 0

\* C20  The file backend is not reentrant: a holder in HELD for a key that
\* asks for the key again opens the key's file once more and waits in
\* flock behind its own lock; it is never in HELD twice for the key, and
\* while it waits there it has no step to take.
SelfBlocked(h) ==
    /\ FileWaits(h, Top(h).key)
    /\ \E d \in 1..(Depth(h) - 1) :
         stack[h][d].key = Top(h).key /\ HELD(stack[h][d])

C20_NotReentrant ==
    factory = FileLockFactory =>
        \A h \in Holders :
            /\ \A k \in Keys : Cardinality(HeldBy(h, k)) <= 1
            /\ Nested(h) => ENABLED FileOpen(h)
            /\ (Depth(h) > 0 /\ SelfBlocked(h)) =>
                  ~ENABLED FileFlock(h) /\ ~ENABLED HolderNext(h)

\* C20 witness: holder 1 is in HELD for key 1, has opened the file of key 1
\* again inside the section and waits in flock, while the lock belongs to
\* the file of its outer scope.
C20_Witness ==
    /\ factory = FileLockFactory
    /\ Depth(1) = 2
    /\ stack[1][1].key = 1 /\ HELD(stack[1][1])
    /\ stack[1][2].key = 1 /\ stack[1][2].pc = "flock"
    /\ flocked[1] = <<1, 1>>
    /\ alive[1]

====
